---- MODULE Spec2Model ----
(***************************************************************************)
(* Model of service_app.py: a Streamlit script that is re-run from top to  *)
(* bottom on the first page load and on every widget change or button      *)
(* click.  One behaviour is one server process with one browser session.   *)
(*                                                                         *)
(* Numbers: the model's output (a float, in months) is kept in thousandths *)
(* of a month.  The outputs drawn are the multiples of 1/8 month, which    *)
(* binary floating point holds exactly (so ties of round() and of the      *)
(* "%.2f" format are real ties), and the values of the documented          *)
(* scenarios, which are no ties.                                           *)
(***************************************************************************)
EXTENDS Integers, Sequences, FiniteSets, TLC

VARIABLES
    disk,             \* the artifact stored in service_interval_model.joblib
    disk_ok,          \* TRUE when joblib.load of that file succeeds
    today,            \* dt.date.today()
    cache,            \* st.cache_resource entry of load_model: <<>> or <<bundle>>
    storage_reads,    \* number of joblib.load calls made by the process
    deserialized,     \* number of joblib.load calls that returned a bundle
    runs,             \* number of script runs started
    ui_date,          \* session state of the date picker: <<>> or <<date>>
    ui_cat,           \* session state of the dropdowns: sequence of [col, val]
    ui_num,           \* session state of the numeric fields: sequence of [col, val]
    pc,               \* position of the current script run
    clicked,          \* the run was triggered by a click on the submit button
    pressed,          \* value returned by st.button in this run
    rendered,         \* form widgets created by this run
    service_date,     \* script variable service_date
    cat_inputs,       \* script variable cat_inputs (ordered dict)
    numeric_inputs,   \* script variable numeric_inputs (ordered dict)
    input_data,       \* the single-row DataFrame: sequence of [col, val]
    written_by,       \* for each column, the assembly steps that wrote it
    model_output,     \* <<>> or <<value returned by model.predict(...)[0]>>
    raw_interval,     \* script variable raw_interval (thousandths of a month)
    interval_for_date,\* script variable interval_for_date
    next_service_date,\* script variable next_service_date
    result,           \* result lines written by this run: <<>> or <<record>>
    run_error,        \* exception that ended this run, "" when none
    calls,            \* per run: how often each pipeline step was performed
    had_inference_error \* model.predict has raised in some earlier or this run

vars == <<disk, disk_ok, today, cache, storage_reads, deserialized, runs,
          ui_date, ui_cat, ui_num, pc, clicked, pressed, rendered,
          service_date, cat_inputs, numeric_inputs, input_data, written_by,
          model_output, raw_interval, interval_for_date, next_service_date,
          result, run_error, calls, had_inference_error>>

-----------------------------------------------------------------------------
(* Bounds *)

\* script runs per behaviour
MaxRuns == 4
\* model outputs range over -MaxRawEighths/8 .. MaxRawEighths/8 months
MaxRawEighths == 13

-----------------------------------------------------------------------------
(* Values *)

NoneVal == "<None>"
NoDate == <<0, 0, 0>>

Dates == { <<2024, 1, 15>>, <<2024, 1, 31>>, <<2023, 1, 31>>, <<2023, 11, 30>> }

Todays == { <<2024, 1, 15>>, <<2023, 12, 31>> }

\* what the user may type into a numeric field
NumberChoices == { 120000 }

Enc(col, classes) == [col |-> col, classes_ |-> classes]

Bundle(fc, encs) == [feature_columns |-> fc, label_encoders |-> encs]

\* Artifact schemas a training pipeline may have written.
Artifacts ==
    { Bundle(<<"service_year", "service_month", "make", "mileage">>,
             <<Enc("make", <<"audi", "bmw">>)>>),
      Bundle(<<"make", "fuel", "distance">>,
             <<Enc("fuel", <<"diesel", "petrol">>), Enc("make", <<"audi">>)>>),
      Bundle(<<"prev_interval", "service_month">>, <<>>),
      Bundle(<<"mileage", "service_year">>,
             <<Enc("make", <<"audi", "bmw">>)>>),
      Bundle(<<"service_year", "age">>,
             <<Enc("service_year", <<"2023", "2024">>)>>),
      Bundle(<<"make", "mileage">>,
             <<Enc("make", <<>>)>>) }

\* multiples of 1/8 month, and the documented scenario values
RawOutputs ==
    { 125 * k : k \in (0 - MaxRawEighths)..MaxRawEighths }
        \cup { -5000, -3000, 400, 6200, 11700 }

Steps == { "assemble", "predict", "project", "display" }

NoCalls == [s \in Steps |-> 0]

-----------------------------------------------------------------------------
(* Helpers on ordered dicts / the one-row frame: sequences of [col, val] *)

Range(s) == { s[i] : i \in 1..Len(s) }

Cols(d) == [i \in 1..Len(d) |-> d[i].col]

Has(d, c) == \E i \in 1..Len(d) : d[i].col = c

Get(d, c) == d[CHOOSE i \in 1..Len(d) : d[i].col = c].val

\* d[c] = v on a dict, df.loc[0, c] = v on the frame: an existing key is
\* overwritten in place, a missing key is appended (setting with enlargement)
SetLoc(d, c, v) ==
    IF Has(d, c)
    THEN [i \in 1..Len(d) |-> IF d[i].col = c THEN [col |-> c, val |-> v] ELSE d[i]]
    ELSE Append(d, [col |-> c, val |-> v])

IndexOf(s, x) == CHOOSE i \in 1..Len(s) : s[i] = x

-----------------------------------------------------------------------------
(* Library behaviour the script relies on *)

\* sklearn LabelEncoder.transform([v])[0]: the position of v in classes_,
\* ValueError ("previously unseen labels") when v is not one of them
Known(le, v) == \E i \in 1..Len(le.classes_) : le.classes_[i] = v

transform(le, v) == IndexOf(le.classes_, v) - 1

\* st.selectbox(options=options, index=0): the option the session holds for
\* the widget, else the first option; None when there is no option at all
selectbox(options, col) ==
    IF Len(options) = 0 THEN NoneVal
    ELSE IF Has(ui_cat, col) THEN Get(ui_cat, col)
    ELSE options[1]

\* st.number_input(value=default_val): the session's value, else the default
number_input(col, default) ==
    IF Has(ui_num, col) THEN Get(ui_num, col) ELSE default

\* st.date_input(value=dt.date.today())
date_input == IF ui_date = <<>> THEN today ELSE ui_date[1]

IsLeap(y) == (y % 4 = 0 /\ y % 100 # 0) \/ y % 400 = 0

DaysInMonth(y, m) ==
    IF m = 2 THEN (IF IsLeap(y) THEN 29 ELSE 28)
    ELSE IF m \in {4, 6, 9, 11} THEN 30 ELSE 31

Min(a, b) == IF a < b THEN a ELSE b

Max(a, b) == IF a > b THEN a ELSE b

\* pd.Timestamp(date) + pd.DateOffset(months=n), then .date(): the month is
\* shifted by n, the year carries, and the day is cut to the length of the
\* month reached
AddMonths(date, n) ==
    LET total == (date[2] - 1) + n
        y == date[1] + (total \div 12)
        m == (total % 12) + 1
    IN <<y, m, Min(date[3], DaysInMonth(y, m))>>

\* int(round(x)) for x in thousandths: nearest integer, ties to even
RoundHalfEven(x) ==
    LET q == x \div 1000
        r == x % 1000
    IN IF r < 500 THEN q
       ELSE IF r > 500 THEN q + 1
       ELSE IF q % 2 = 0 THEN q ELSE q + 1

\* f"{x:.2f}" for x in thousandths: the value in hundredths, ties to even
\* (the sign is kept apart, as the format does)
Format2(x) ==
    LET a == IF x < 0 THEN 0 - x ELSE x
        q == a \div 10
        r == a % 10
        h == IF r < 5 THEN q
             ELSE IF r > 5 THEN q + 1
             ELSE IF q % 2 = 0 THEN q ELSE q + 1
    IN [negative |-> x < 0, hundredths |-> h]

-----------------------------------------------------------------------------
(* The script's module-level names (lines 24-27) *)

Loaded == cache[1]

feature_columns == Loaded.feature_columns

label_encoders == Loaded.label_encoders

CATEGORICAL_COLS == Cols(label_encoders)

DATE_DERIVED_COLS == <<"service_year", "service_month">>

\* lines 60-63
numeric_features ==
    SelectSeq(feature_columns,
              LAMBDA c : c \notin Range(CATEGORICAL_COLS \o DATE_DERIVED_COLS))

\* lines 68-75
default_val(col) ==
    IF col = "mileage" THEN 50000
    ELSE IF col = "distance" THEN 10
    ELSE IF col \in {"service_count_so_far", "prev_interval"} THEN 2
    ELSE 0

-----------------------------------------------------------------------------
(* Feature assembly, lines 84-100 *)

\* one df.loc[0, c] = v made by assembly step `step`
Write(st, c, v, step) ==
    [df |-> SetLoc(st.df, c, v),
     wr |-> SetLoc(st.wr, c,
                   (IF Has(st.wr, c) THEN Get(st.wr, c) ELSE {}) \cup {step})]

\* lines 84-85: a frame with the columns of feature_columns, one row of zeros
ZeroRow ==
    [df |-> [i \in 1..Len(feature_columns) |-> [col |-> feature_columns[i], val |-> 0]],
     wr |-> [i \in 1..Len(feature_columns) |-> [col |-> feature_columns[i], val |-> {}]]]

\* lines 88-91
WriteDateDerived(st) ==
    LET a == IF "service_year" \in Range(feature_columns)
             THEN Write(st, "service_year", service_date[1], "date") ELSE st
    IN IF "service_month" \in Range(feature_columns)
       THEN Write(a, "service_month", service_date[2], "date") ELSE a

\* le = label_encoders[col]
EncoderOf(col) ==
    label_encoders[CHOOSE i \in 1..Len(label_encoders) : label_encoders[i].col = col]

\* lines 94-96, the first k items of cat_inputs
RECURSIVE WriteCategorical(_, _)
WriteCategorical(st, k) ==
    IF k = 0 THEN st
    ELSE Write(WriteCategorical(st, k - 1), cat_inputs[k].col,
               transform(EncoderOf(cat_inputs[k].col), cat_inputs[k].val),
               "categorical")

\* line 96 raises for some item of cat_inputs
TransformRaises ==
    \E k \in 1..Len(cat_inputs) :
        ~Known(EncoderOf(cat_inputs[k].col), cat_inputs[k].val)

\* lines 99-100, the first k items of numeric_inputs
RECURSIVE WriteNumeric(_, _)
WriteNumeric(st, k) ==
    IF k = 0 THEN st
    ELSE Write(WriteNumeric(st, k - 1), numeric_inputs[k].col,
               numeric_inputs[k].val, "numeric")

Assembled ==
    WriteNumeric(WriteCategorical(WriteDateDerived(ZeroRow), Len(cat_inputs)),
                 Len(numeric_inputs))

-----------------------------------------------------------------------------
(* Due-date projection, lines 107-114 *)

\* lines 107-108
Clamp(raw) == IF raw < 0 THEN 0 ELSE raw

\* a variant of line 109 that truncates: int(raw_interval) without round()
IntervalForDate_truncating(raw) == Max(1, raw \div 1000)

\* line 109
IntervalForDate(raw) == Max(1, RoundHalfEven(raw))

\* a variant of lines 111-114 that lets a day past the end of the month run
\* over into the next month instead of cutting it
NextServiceDate_rollover(date, months) ==
    LET total == (date[2] - 1) + months
        y == date[1] + (total \div 12)
        m == (total % 12) + 1
        over == date[3] - DaysInMonth(y, m)
    IN IF over <= 0 THEN <<y, m, date[3]>>
       ELSE <<IF m = 12 THEN y + 1 ELSE y, (m % 12) + 1, over>>

\* lines 111-114
NextServiceDate(date, months) == AddMonths(date, months)

-----------------------------------------------------------------------------
(* State *)

Init ==
    /\ disk \in Artifacts
    /\ disk_ok \in BOOLEAN
    /\ today \in Todays
    /\ cache = <<>>
    /\ storage_reads = 0
    /\ deserialized = 0
    /\ runs = 0
    /\ ui_date = <<>>
    /\ ui_cat = <<>>
    /\ ui_num = <<>>
    /\ pc = "idle"
    /\ clicked = FALSE
    /\ pressed = FALSE
    /\ rendered = {}
    /\ service_date = NoDate
    /\ cat_inputs = <<>>
    /\ numeric_inputs = <<>>
    /\ input_data = <<>>
    /\ written_by = <<>>
    /\ model_output = <<>>
    /\ raw_interval = 0
    /\ interval_for_date = 0
    /\ next_service_date = NoDate
    /\ result = <<>>
    /\ run_error = ""
    /\ calls = NoCalls
    /\ had_inference_error = FALSE

process_vars == <<disk, today, cache, storage_reads, deserialized>>

session_vars == <<ui_date, ui_cat, ui_num>>

script_vars == <<service_date, cat_inputs, numeric_inputs, input_data, written_by,
                 model_output, raw_interval, interval_for_date, next_service_date>>

\* Streamlit starts a run of the script: the page is rebuilt from nothing
StartRun(click) ==
    /\ pc = "idle"
    /\ runs < MaxRuns
    /\ runs' = runs + 1
    /\ pc' = "load"
    /\ clicked' = click
    /\ pressed' = FALSE
    /\ rendered' = {}
    /\ service_date' = NoDate
    /\ cat_inputs' = <<>>
    /\ numeric_inputs' = <<>>
    /\ input_data' = <<>>
    /\ written_by' = <<>>
    /\ model_output' = <<>>
    /\ raw_interval' = 0
    /\ interval_for_date' = 0
    /\ next_service_date' = NoDate
    /\ result' = <<>>
    /\ run_error' = ""
    /\ calls' = NoCalls
    /\ UNCHANGED <<process_vars, disk_ok, had_inference_error>>

Widget(kind, col) == <<kind, col>>

(* What the user and the operator do between runs *)

\* the page is opened, or re-run without touching a widget
Rerun ==
    /\ StartRun(FALSE)
    /\ UNCHANGED session_vars

\* the user picks another last-service date
ChangeDate ==
    /\ Widget("date_input", "") \in rendered
    /\ \E d \in Dates :
        /\ d # date_input
        /\ ui_date' = <<d>>
    /\ StartRun(FALSE)
    /\ UNCHANGED <<ui_cat, ui_num>>

\* the user picks another option of one dropdown
SelectOption ==
    /\ \E w \in rendered :
        /\ w[1] = "selectbox"
        /\ \E label \in Range(EncoderOf(w[2]).classes_) :
            /\ label # Get(cat_inputs, w[2])
            /\ ui_cat' = SetLoc(ui_cat, w[2], label)
    /\ StartRun(FALSE)
    /\ UNCHANGED <<ui_date, ui_num>>

\* the user types another number into one numeric field
ChangeNumber ==
    /\ \E w \in rendered :
        /\ w[1] = "number_input"
        /\ \E v \in NumberChoices :
            /\ v # Get(numeric_inputs, w[2])
            /\ ui_num' = SetLoc(ui_num, w[2], v)
    /\ StartRun(FALSE)
    /\ UNCHANGED <<ui_date, ui_cat>>

\* the user clicks "Predict Next Service Due Date"
ClickPredict ==
    /\ Widget("button", "") \in rendered
    /\ StartRun(TRUE)
    /\ UNCHANGED session_vars

\* the operator puts the artifact file in place, or it goes missing (once the
\* bundle is cached line 18 is not executed again, so later changes of the
\* file are left out)
ArtifactFileChanges ==
    /\ pc = "idle"
    /\ cache = <<>>
    /\ runs < MaxRuns
    /\ disk_ok' = ~disk_ok
    /\ UNCHANGED <<process_vars, session_vars, script_vars, runs, pc, clicked,
                   pressed, rendered, result, run_error, calls, had_inference_error>>

-----------------------------------------------------------------------------
(* One run of the script *)

run_frame == <<disk_ok, runs, clicked, session_vars, had_inference_error>>

\* a variant of lines 16-24 without the cache being used: load_model reads
\* the file in every run
LoadModelCached_rereads ==
    /\ pc = "load"
    /\ cache # <<>>
    /\ storage_reads' = storage_reads + 1
    /\ deserialized' = deserialized + 1
    /\ cache' = <<disk>>
    /\ pc' = "form"
    /\ UNCHANGED <<disk, today, run_frame, script_vars, pressed, rendered,
                   result, run_error, calls>>

\* lines 16-24, the cache of st.cache_resource holds the bundle
LoadModelCached ==
    /\ pc = "load"
    /\ cache # <<>>
    /\ pc' = "form"
    /\ UNCHANGED <<process_vars, run_frame, script_vars, pressed, rendered,
                   result, run_error, calls>>

\* lines 16-24, nothing cached: joblib.load reads the file, the returned
\* tuple is cached
LoadModelReads ==
    /\ pc = "load"
    /\ cache = <<>>
    /\ disk_ok
    /\ storage_reads' = storage_reads + 1
    /\ deserialized' = deserialized + 1
    /\ cache' = <<disk>>
    /\ pc' = "form"
    /\ UNCHANGED <<disk, today, run_frame, script_vars, pressed, rendered,
                   result, run_error, calls>>

\* a variant in which load_model() is called below the date picker (line 36)
LoadModelFails_after_date_input ==
    /\ pc = "load"
    /\ cache = <<>>
    /\ ~disk_ok
    /\ storage_reads' = storage_reads + 1
    /\ rendered' = rendered \cup { Widget("date_input", "") }
    /\ run_error' = "ArtifactError"
    /\ pc' = "idle"
    /\ UNCHANGED <<disk, today, cache, deserialized, run_frame, script_vars,
                   pressed, result, calls>>

\* lines 16-24, nothing cached and joblib.load raises: st.cache_resource
\* stores nothing, the exception ends the run at line 24
LoadModelFails ==
    /\ pc = "load"
    /\ cache = <<>>
    /\ ~disk_ok
    /\ storage_reads' = storage_reads + 1
    /\ run_error' = "ArtifactError"
    /\ pc' = "idle"
    /\ UNCHANGED <<disk, today, cache, deserialized, run_frame, script_vars,
                   pressed, rendered, result, calls>>

\* lines 36-82: the date picker, one dropdown per encoder, one numeric field
\* per remaining feature column
CollectForm ==
    /\ pc = "form"
    /\ service_date' = date_input
    /\ cat_inputs' =
         [i \in 1..Len(CATEGORICAL_COLS) |->
            [col |-> CATEGORICAL_COLS[i],
             val |-> selectbox(EncoderOf(CATEGORICAL_COLS[i]).classes_,
                               CATEGORICAL_COLS[i])]]
    /\ numeric_inputs' =
         [i \in 1..Len(numeric_features) |->
            [col |-> numeric_features[i],
             val |-> number_input(numeric_features[i],
                                  default_val(numeric_features[i]))]]
    /\ rendered' = rendered
         \cup { Widget("date_input", "") }
         \cup { Widget("selectbox", c) : c \in Range(CATEGORICAL_COLS) }
         \cup { Widget("number_input", c) : c \in Range(numeric_features) }
    /\ pc' = "assemble"
    /\ UNCHANGED <<process_vars, run_frame, input_data, written_by, model_output,
                   raw_interval, interval_for_date, next_service_date, pressed,
                   result, run_error, calls>>

\* lines 84-100, every transform returns
AssembleFeatures ==
    /\ pc = "assemble"
    /\ ~TransformRaises
    /\ input_data' = Assembled.df
    /\ written_by' = Assembled.wr
    /\ calls' = [calls EXCEPT !["assemble"] = @ + 1]
    /\ pc' = "button"
    /\ UNCHANGED <<process_vars, run_frame, service_date, cat_inputs,
                   numeric_inputs, model_output, raw_interval, interval_for_date,
                   next_service_date, pressed, rendered, result, run_error>>

\* lines 84-96, le.transform raises ValueError: the run ends at line 96
AssembleRaises ==
    /\ pc = "assemble"
    /\ TransformRaises
    /\ calls' = [calls EXCEPT !["assemble"] = @ + 1]
    /\ run_error' = "UnknownCategory"
    /\ pc' = "idle"
    /\ UNCHANGED <<process_vars, run_frame, script_vars, pressed, rendered, result>>

\* a variant of line 102 without the if: the prediction is made in every run
Button_unconditional ==
    /\ pc = "button"
    /\ pressed' = clicked
    /\ rendered' = rendered \cup { Widget("button", "") }
    /\ pc' = "predict"
    /\ UNCHANGED <<process_vars, run_frame, script_vars, result, run_error, calls>>

\* line 102: st.button is True in the run its click started
Button ==
    /\ pc = "button"
    /\ pressed' = clicked
    /\ rendered' = rendered \cup { Widget("button", "") }
    /\ pc' = IF clicked THEN "predict" ELSE "idle"
    /\ UNCHANGED <<process_vars, run_frame, script_vars, result, run_error, calls>>

\* line 104, model.predict returns
PredictReturns ==
    /\ pc = "predict"
    /\ \E out \in RawOutputs :
        /\ model_output' = <<out>>
        /\ raw_interval' = out
    /\ calls' = [calls EXCEPT !["predict"] = @ + 1]
    /\ pc' = "guard"
    /\ UNCHANGED <<process_vars, run_frame, service_date, cat_inputs,
                   numeric_inputs, input_data, written_by, interval_for_date,
                   next_service_date, pressed, rendered, result, run_error>>

\* a variant of line 104 whose failure handling clears the resource cache
PredictRaises_clearing_cache ==
    /\ pc = "predict"
    /\ calls' = [calls EXCEPT !["predict"] = @ + 1]
    /\ run_error' = "InferenceError"
    /\ had_inference_error' = TRUE
    /\ cache' = <<>>
    /\ pc' = "idle"
    /\ UNCHANGED <<disk, today, storage_reads, deserialized, disk_ok, runs,
                   clicked, session_vars, script_vars, pressed, rendered, result>>

\* line 104, model.predict raises: the run ends there
PredictRaises ==
    /\ pc = "predict"
    /\ calls' = [calls EXCEPT !["predict"] = @ + 1]
    /\ run_error' = "InferenceError"
    /\ had_inference_error' = TRUE
    /\ pc' = "idle"
    /\ UNCHANGED <<process_vars, disk_ok, runs, clicked, session_vars,
                   script_vars, pressed, rendered, result>>

\* lines 107-109
Guard ==
    /\ pc = "guard"
    /\ raw_interval' = Clamp(raw_interval)
    /\ interval_for_date' = IntervalForDate(Clamp(raw_interval))
    /\ pc' = "project"
    /\ UNCHANGED <<process_vars, run_frame, service_date, cat_inputs,
                   numeric_inputs, input_data, written_by, model_output,
                   next_service_date, pressed, rendered, result, run_error, calls>>

\* lines 111-114
Project ==
    /\ pc = "project"
    /\ next_service_date' = NextServiceDate(service_date, interval_for_date)
    /\ calls' = [calls EXCEPT !["project"] = @ + 1]
    /\ pc' = "display"
    /\ UNCHANGED <<process_vars, run_frame, service_date, cat_inputs,
                   numeric_inputs, input_data, written_by, model_output,
                   raw_interval, interval_for_date, pressed, rendered, result,
                   run_error>>

\* lines 116-133
Display ==
    /\ pc = "display"
    /\ result' = <<[raw |-> Format2(raw_interval),
                    interval |-> interval_for_date,
                    due |-> next_service_date]>>
    /\ calls' = [calls EXCEPT !["display"] = @ + 1]
    /\ pc' = "idle"
    /\ UNCHANGED <<process_vars, run_frame, script_vars, pressed, rendered, run_error>>

Next ==
    \/ Rerun
    \/ ChangeDate
    \/ SelectOption
    \/ ChangeNumber
    \/ ClickPredict
    \/ ArtifactFileChanges
    \/ LoadModelCached
    \/ LoadModelReads
    \/ LoadModelFails
    \/ CollectForm
    \/ AssembleFeatures
    \/ AssembleRaises
    \/ Button
    \/ PredictReturns
    \/ PredictRaises
    \/ Guard
    \/ Project
    \/ Display

Spec == Init /\ [][Next]_vars

-----------------------------------------------------------------------------
(* Properties *)

Abs(x) == IF x < 0 THEN 0 - x ELSE x

\* the script has computed interval_for_date from this run's model output
Projected == pc \in {"project", "display"} \/ result # <<>>

\* the integer nearest to c thousandths, the even one of two equally near
IsNearest(n, c) ==
    \/ Abs(1000 * n - c) < 500
    \/ Abs(1000 * n - c) = 500 /\ n % 2 = 0

\* C1: for every raw interval r the model returns, the effective interval is
\* max(1, round(max(r, 0))): an integer >= 1, exactly 1 for every r <= 0, and
\* 1, 1, 1, 1, 1, 12 for r = -5.0, 0.0, 0.4, 0.5, 1.0, 11.7.
C1_EffectiveInterval ==
    Projected =>
        LET r == model_output[1]
            c == IF r > 0 THEN r ELSE 0
        IN /\ interval_for_date \in Int
           /\ interval_for_date >= 1
           /\ r <= 0 => interval_for_date = 1
           /\ \E n \in 0..interval_for_date :
                /\ IsNearest(n, c)
                /\ interval_for_date = IF n > 1 THEN n ELSE 1
           /\ r \in {-5000, 0, 400, 500, 1000} => interval_for_date = 1
           /\ r = 11700 => interval_for_date = 12

C1_Witness ==
    /\ pc = "display"
    /\ model_output = <<11700>>
    /\ interval_for_date = 12

MonthIndex(date) == 12 * date[1] + date[2]

\* C2: the due date is the last-service date advanced by exactly the
\* effective interval in whole calendar months; the day of month is kept when
\* the target month has it and is otherwise the last day of that month;
\* 2024-01-15 with raw 6.2 gives 2024-07-15, 2024-01-31 with raw 1.0 gives
\* 2024-02-29.
C2_DueDate ==
    result # <<>> =>
        LET due == result[1].due
            last == DaysInMonth(due[1], due[2])
        IN /\ due = next_service_date
           /\ due[2] \in 1..12
           /\ MonthIndex(due) - MonthIndex(service_date) = interval_for_date
           /\ due[3] = IF service_date[3] <= last THEN service_date[3] ELSE last
           /\ (service_date = <<2024, 1, 15>> /\ model_output = <<6200>>)
                => due = <<2024, 7, 15>>
           /\ (service_date = <<2024, 1, 31>> /\ model_output = <<1000>>)
                => due = <<2024, 2, 29>>

C2_Witness ==
    /\ result # <<>>
    /\ service_date = <<2024, 1, 31>>
    /\ model_output = <<1000>>
    /\ result[1].due = <<2024, 2, 29>>

\* C3: the feature row handed to model.predict has exactly the columns of
\* feature_columns, in their order, for every artifact schema.
C3_RowHasFeatureColumns ==
    pc = "predict" => Cols(input_data) = feature_columns

\* C4: the value displayed as the raw interval is the model's unclamped
\* output for the request, also when that output is negative.
C4_DisplayedRawIsModelOutput ==
    result # <<>> => result[1].raw = Format2(model_output[1])

\* C5 as stated: the file is read at most once by the process, on the first
\* load_model() call, whatever that call's outcome.
C5_StorageReadAtMostOnce == storage_reads <= 1

\* C5 as amended: the artifact is deserialized successfully at most once;
\* from the first load_model() call that returns, every later call returns
\* the same cached bundle and storage is not read again.
C5_LoadedOnce ==
    /\ [](deserialized <= 1 /\ deserialized = Len(cache))
    /\ [][cache # <<>> => (cache' = cache /\ storage_reads' = storage_reads)]_vars

C5_Witness ==
    /\ pc = "idle"
    /\ runs >= 3
    /\ cache = <<disk>>
    /\ deserialized = 1
    /\ storage_reads = 1

\* C6: when loading the artifact fails, the run stops with the error before
\* any form widget is created, and no prediction is computed or displayed in
\* that run.
C6_LoadFailureStopsRun ==
    run_error = "ArtifactError" =>
        /\ pc = "idle"
        /\ rendered = {}
        /\ calls = NoCalls
        /\ model_output = <<>>
        /\ result = <<>>

C6_Witness ==
    /\ run_error = "ArtifactError"
    /\ runs >= 1
    /\ cache = <<>>

\* C7: when model.predict raises, the request produces no result lines and
\* the cached artifact is left unchanged; every later request is served from
\* the same cached artifact, storage is not read again.
C7_InferenceErrorKeepsCache ==
    /\ [](run_error = "InferenceError" => (result = <<>> /\ cache = <<disk>>))
    /\ [][(pc = "predict" /\ run_error' = "InferenceError")
            => (cache' = cache /\ result' = <<>>)]_vars
    /\ [][had_inference_error
            => (cache' = cache /\ storage_reads' = storage_reads)]_vars

C7_Witness ==
    /\ had_inference_error
    /\ run_error = ""
    /\ result # <<>>
    /\ cache = <<disk>>
    /\ storage_reads = 1

\* C8: after assembly every column of feature_columns holds the value of
\* exactly one source (service_year / service_month the year / month of the
\* last-service date, an encoder column the code of the selected label, any
\* other column its numeric input) and no column is written by two steps.
C8_OneSourcePerColumn ==
    pc \in {"button", "predict"} =>
        \A c \in Range(feature_columns) :
            /\ Cardinality(Get(written_by, c)) = 1
            /\ c = "service_year" => Get(input_data, c) = service_date[1]
            /\ c = "service_month" => Get(input_data, c) = service_date[2]
            /\ (Has(cat_inputs, c) /\ c \notin Range(DATE_DERIVED_COLS))
                 => Get(input_data, c) = transform(EncoderOf(c), Get(cat_inputs, c))
            /\ Has(numeric_inputs, c) => Get(input_data, c) = Get(numeric_inputs, c)

\* C9: for every categorical column the label passed to its encoder's
\* transform is one of the encoder's classes_, so the unknown-category
\* failure is never reached from the form.
C9_SelectionIsKnown ==
    /\ pc = "assemble" =>
         \A k \in 1..Len(cat_inputs) :
            Known(EncoderOf(cat_inputs[k].col), cat_inputs[k].val)
    /\ run_error # "UnknownCategory"

RunEnded == pc = "idle" /\ runs > 0

\* C10 as stated: in every run each of assembly, predict, projection and
\* display is performed exactly once if the button was pressed in that run
\* and not at all otherwise.
C10_FullPassIffPressed ==
    RunEnded => \A s \in Steps : calls[s] = IF pressed THEN 1 ELSE 0

\* C10 as amended: feature assembly is performed once in every run that gets
\* past load_model, pressed or not; model.predict is called exactly once if
\* the button was pressed in that run and never otherwise; projection and
\* display are performed exactly once if model.predict returned and not at
\* all otherwise.
C10_PredictIffPressed ==
    /\ \A s \in Steps : calls[s] <= 1
    /\ pressed => clicked
    /\ RunEnded =>
        /\ calls["assemble"] = IF run_error = "ArtifactError" THEN 0 ELSE 1
        /\ calls["predict"] = IF pressed THEN 1 ELSE 0
        /\ calls["project"] = IF pressed /\ run_error = "" THEN 1 ELSE 0
        /\ calls["display"] = calls["project"]
        /\ (result # <<>>) = (calls["display"] = 1)

C10_Witness ==
    /\ RunEnded
    /\ pressed
    /\ result # <<>>
    /\ \A s \in Steps : calls[s] = 1

====
